---- MODULE Spec2Model ----
(***************************************************************************)
(* Model of backend/app.py: the similarity ranker (recommend_funds), the   *)
(* support formatter (_format_support), the column layout of               *)
(* _build_content_pdf and the two POST handlers (submit, export_pdf).      *)
(*                                                                         *)
(* Python lists are 0-based; the sequences here are 1-based, so a catalog  *)
(* position i of the source is position i+1 of the model.                  *)
(***************************************************************************)
EXTENDS Integers, Sequences, FiniteSets, TLC

VARIABLES
    rank,     \* one evaluation of recommend_funds' scoring and sorting (lines 86-89)
    cols,     \* one evaluation of _build_content_pdf's column widths (lines 209-219)
    fmt,      \* one evaluation of _format_support (lines 94-117)
    pc,       \* where the request's handler stands: the call it is about to make
    route,    \* "submit" or "export_pdf"
    data,     \* the request's JSON body
    catalog,  \* what load_funds read from FUNDS_FILE on this request
    funds,    \* submit's `recommended`, export_pdf's `funds`
    response, \* the HTTP response
    calls     \* the collaborator calls made so far, in order, each with its outcome

reqvars == <<pc, route, data, catalog, funds, response, calls>>

vars == <<rank, cols, fmt, pc, route, data, catalog, funds, response, calls>>

(***************************************************************************)
(* Bounds of the model.                                                    *)
(***************************************************************************)
MaxCatalog == 4
MaxTopK == 4
MaxWidthSteps == 120
MaxStrLen == 2
MaxListLen == 2
MaxBadFields == 1
MaxProvided == 2
MaxFileFunds == 2

(***************************************************************************)
(* Generic sequence helpers.                                               *)
(***************************************************************************)
SeqsUpTo(S, n) == UNION {[1..k -> S] : k \in 0..n}

Reverse(s) == [i \in 1..Len(s) |-> s[Len(s) + 1 - i]]

Take(s, n) == IF n >= Len(s) THEN s ELSE SubSeq(s, 1, n)

Max(a, b) == IF a >= b THEN a ELSE b

(***************************************************************************)
(* Embedding vectors.  Components are small integers; the all-zero vector  *)
(* is a vector like any other (nothing in the code excludes it).           *)
(***************************************************************************)
Vectors == {<<0, 0>>, <<1, 0>>, <<0, 1>>, <<1, 1>>, <<2, 2>>, <<-1, 0>>}

Funds == [embedding : Vectors]

Catalogs == SeqsUpTo(Funds, MaxCatalog)

RECURSIVE DotFrom(_, _, _)
DotFrom(a, b, i) == IF i > Len(a) THEN 0 ELSE a[i] * b[i] + DotFrom(a, b, i + 1)

\* np.dot(a, b)
Dot(a, b) == DotFrom(a, b, 1)

(***************************************************************************)
(* cosine_similarity(a, b) = dot(a,b) / (norm(a) * norm(b)).               *)
(* With a zero norm the float division is 0.0/0.0, which numpy evaluates   *)
(* to NaN (a warning, no exception).  A finite result x is represented     *)
(* exactly by the rational sgn(x)*x^2 = sgn(d)*d^2 / (|a|^2 * |b|^2),      *)
(* num/den: x -> sgn(x)*x^2 is strictly increasing, so the order and the   *)
(* equality of scores are those of the cosines, and 0 is num = 0.          *)
(***************************************************************************)
NaN == [nan |-> TRUE, num |-> 0, den |-> 1]

Sgn(d) == IF d < 0 THEN -1 ELSE IF d > 0 THEN 1 ELSE 0

cosine_similarity(a, b) ==
    LET d == Dot(a, b)
        n == Dot(a, a) * Dot(b, b)
    IN  IF n = 0 THEN NaN
        ELSE [nan |-> FALSE, num |-> Sgn(d) * d * d, den |-> n]

\* x < y on floats: every comparison with NaN is false
FloatLT(x, y) == ~x.nan /\ ~y.nan /\ x.num * y.den < y.num * x.den

\* x == y on floats: NaN equals nothing, itself included
FloatEQ(x, y) == ~x.nan /\ ~y.nan /\ x.num * y.den = y.num * x.den

(***************************************************************************)
(* sorted(range(n), key=lambda i: sims[i], reverse=True), as CPython's     *)
(* list.sort computes it for n < 64 (one run, no merge): the list is       *)
(* reversed, the leading natural run is found (count_run; reversed in      *)
(* place when strictly descending), the rest is inserted by binary         *)
(* insertion (binarysort), and the list is reversed again.  The only       *)
(* comparison used is key < key.                                           *)
(***************************************************************************)
ISLT(sims, i, j) == FloatLT(sims[i], sims[j])

\* count_run: length of the run starting at a[1]
RECURSIVE RunEnd(_, _, _, _)
RunEnd(sims, a, k, descending) ==
    IF k > Len(a) THEN Len(a)
    ELSE IF descending = ISLT(sims, a[k], a[k - 1])
         THEN RunEnd(sims, a, k + 1, descending)
         ELSE k - 1

\* binarysort's search of the insertion point of pivot in a[l+1 .. r] (0-based l, r)
RECURSIVE BinSearch(_, _, _, _, _)
BinSearch(sims, a, pivot, l, r) ==
    IF l >= r THEN l
    ELSE LET p == l + ((r - l) \div 2)
         IN  IF ISLT(sims, pivot, a[p + 1])
             THEN BinSearch(sims, a, pivot, l, p)
             ELSE BinSearch(sims, a, pivot, p + 1, r)

\* binarysort: a[1..start-1] is sorted, insert a[start], a[start+1], ...
RECURSIVE BinarySort(_, _, _)
BinarySort(sims, a, start) ==
    IF start > Len(a) THEN a
    ELSE LET pivot == a[start]
             l == BinSearch(sims, a, pivot, 0, start - 1)
             b == [i \in 1..Len(a) |->
                      IF i <= l THEN a[i]
                      ELSE IF i = l + 1 THEN pivot
                      ELSE IF i <= start THEN a[i - 1]
                      ELSE a[i]]
         IN  BinarySort(sims, b, start + 1)

ListSort(sims, a) ==
    IF Len(a) < 2 THEN a
    ELSE LET descending == ISLT(sims, a[2], a[1])
             n == RunEnd(sims, a, 3, descending)
             b == IF descending
                  THEN [i \in 1..Len(a) |-> IF i <= n THEN a[n + 1 - i] ELSE a[i]]
                  ELSE a
         IN  BinarySort(sims, b, n + 1)

SortedDesc(sims) ==
    Reverse(ListSort(sims, Reverse([i \in 1..Len(sims) |-> i])))

(***************************************************************************)
(* recommend_funds, lines 87-89: score every fund, sort the positions,     *)
(* keep the first top_k, return the funds at those positions.              *)
(***************************************************************************)
Sims(fs, sub_emb) ==
    [i \in 1..Len(fs) |-> cosine_similarity(sub_emb, fs[i].embedding)]

TopIdxsOneMore(sims, top_k) == Take(SortedDesc(sims), top_k + 1)

TopIdxs(sims, top_k) == Take(SortedDesc(sims), top_k)

Pick(fs, idxs) == [p \in 1..Len(idxs) |-> fs[idxs[p]]]

(***************************************************************************)
(* Specification of the ranker alone: Init draws a catalog, a query vector *)
(* and a top_k; Rank applies lines 87-89 to them.                          *)
(***************************************************************************)
RankIdle == [pc |-> "idle"]

ColsIdle == [pc |-> "idle"]

FmtIdle == [pc |-> "idle"]

\* no request is served in the specifications of the pure functions
NoRequest ==
    /\ pc = "off"
    /\ route = "none"
    /\ data = <<>>
    /\ catalog = <<>>
    /\ funds = <<>>
    /\ response = <<>>
    /\ calls = <<>>

RankInit ==
    /\ NoRequest
    /\ cols = ColsIdle
    /\ fmt = FmtIdle
    /\ rank \in [pc : {"start"}, funds : Catalogs, sub_emb : Vectors, top_k : 0..MaxTopK,
              sims : {<<>>}, top_idxs : {<<>>}, result : {<<>>}]

Rank ==
    /\ rank.pc = "start"
    /\ LET sims == Sims(rank.funds, rank.sub_emb)
           top_idxs == TopIdxs(sims, rank.top_k)
       IN  rank' = [rank EXCEPT !.pc = "done", !.sims = sims, !.top_idxs = top_idxs,
                                !.result = Pick(rank.funds, top_idxs)]
    /\ UNCHANGED <<cols, fmt, reqvars>>

RankNext == Rank

SpecRank == RankInit /\ [][RankNext]_vars

(***************************************************************************)
(* _build_content_pdf, lines 209-219: the widths of the eight columns.     *)
(* Lengths are exact integers: the content width is in 1/1000 pt, COLS in  *)
(* 1/1000, so a column width is in 1/1000000 pt.  Source column i is       *)
(* column i+1 here; the headers of line 221 name the columns.              *)
(***************************************************************************)
COLS == <<45, 180, 180, 230, 120, 100, 115, 30>>

OrganizationCol == 3
TypeSupportCol == 4
AmountCol == 7
LinkCol == 8

MinAmount == 80000000
MinLink == 48000000
FloorWidth == 60000000

\* page_w (595.27 pt) and SIDE_CM * cm (0.8 * 72/2.54 pt, to the nearest 1/1000 pt)
PageW == 595270
SideMargin == 22677

\* doc.width = page width - leftMargin - rightMargin
DocWidth == PageW - 2 * SideMargin

Proportional(width) == [i \in 1..Len(COLS) |-> width * COLS[i]]

\* the same step with the deficit taken from the "Organization" column
ApplyMinFromOrganization(cw, col, minw) ==
    IF cw[col] < minw
    THEN LET deficit == minw - cw[col]
         IN  [cw EXCEPT ![col] = minw,
                        ![OrganizationCol] = Max(FloorWidth, cw[OrganizationCol] - deficit)]
    ELSE cw

\* lines 212-215 (col = 6) and 216-219 (col = 7)
ApplyMin(cw, col, minw) ==
    IF cw[col] < minw
    THEN LET deficit == minw - cw[col]
         IN  [cw EXCEPT ![col] = minw,
                        ![TypeSupportCol] = Max(FloorWidth, cw[TypeSupportCol] - deficit)]
    ELSE cw

ColWidths(width) ==
    ApplyMin(ApplyMin(Proportional(width), AmountCol, MinAmount), LinkCol, MinLink)

Widths == {20000 * k : k \in 1..MaxWidthSteps} \cup {DocWidth}

ColsInit ==
    /\ NoRequest
    /\ rank = RankIdle
    /\ fmt = FmtIdle
    /\ cols \in [pc : {"start"}, width : Widths, col_widths : {<<>>}]

Layout ==
    /\ cols.pc = "start"
    /\ cols' = [cols EXCEPT !.pc = "done", !.col_widths = ColWidths(cols.width)]
    /\ UNCHANGED <<rank, fmt, reqvars>>

ColsNext == Layout

SpecCols == ColsInit /\ [][ColsNext]_vars

(***************************************************************************)
(* _format_support, lines 94-117.  A text is a sequence of characters.     *)
(* EmDash stands for the em dash (U+2014) of the source; the alphabet of   *)
(* the inputs has no hyphen, so the two are never confused.                *)
(***************************************************************************)
EmDash == "-"

Alphabet == {"a", "b", " ", EmDash}

Texts == SeqsUpTo(Alphabet, MaxStrLen)

\* Python values: None, str, int, dict (with optional "type" and "topic" keys,
\* in that order), list
PyNone == [tag |-> "None"]
PyStr(s) == [tag |-> "str", s |-> s]
PyInt(n) == [tag |-> "int", n |-> n]
Absent == [has |-> FALSE, s |-> <<>>]
Key(s) == [has |-> TRUE, s |-> s]
PyDict(type, topic) == [tag |-> "dict", type |-> type, topic |-> topic]
PyList(items) == [tag |-> "list", items |-> items]

RECURSIVE Join(_, _)
Join(sep, parts) ==
    IF parts = <<>> THEN <<>>
    ELSE IF Len(parts) = 1 THEN parts[1]
    ELSE parts[1] \o sep \o Join(sep, Tail(parts))

RECURSIVE LStrip(_, _)
LStrip(s, chars) ==
    IF s # <<>> /\ s[1] \in chars THEN LStrip(Tail(s), chars) ELSE s

\* str.strip(chars): drops the leading and trailing characters that are in chars
Strip(s, chars) == Reverse(LStrip(Reverse(LStrip(s, chars)), chars))

\* str.strip(): drops leading and trailing whitespace
StripWs(s) == Strip(s, {" "})

Digit(d) == <<"0", "1", "2", "3", "4", "5", "6", "7", "8", "9">>[d + 1]

RECURSIVE Decimal(_)
Decimal(n) == IF n < 10 THEN <<Digit(n)>> ELSE Decimal(n \div 10) \o <<Digit(n % 10)>>

\* str(x) of a str, a None or a non-negative int
Str(x) ==
    CASE x.tag = "str" -> x.s
      [] x.tag = "None" -> <<"N", "o", "n", "e">>
      [] x.tag = "int" -> Decimal(x.n)

\* x.get(key, "")
Get(k) == IF k.has THEN k.s ELSE <<>>

Quoted(s) == <<"\"">> \o s \o <<"\"">>

\* json.dumps(x, ensure_ascii=False) of a dict of texts without quotes or backslashes
JsonDumps(x) ==
    LET member(name, k) ==
            IF k.has THEN <<Quoted(name) \o <<":", " ">> \o Quoted(k.s)>> ELSE <<>>
        members == member(<<"t", "y", "p", "e">>, x.type)
                   \o member(<<"t", "o", "p", "i", "c">>, x.topic)
    IN  <<"{">> \o Join(<<",", " ">>, members) \o <<"}">>

Dash == <<" ", EmDash, " ">>

\* lines 103-107: a dict entry of a list
FormatItemDict(x) ==
    LET t == Strip(Join(Dash, <<StripWs(Get(x.type)), StripWs(Get(x.topic))>>),
                   {" ", EmDash})
    IN  IF t # <<>> THEN t ELSE JsonDumps(x)

\* lines 102-109: one entry of a list
FormatItem(x) == IF x.tag = "dict" THEN FormatItemDict(x) ELSE Str(x)

\* the list branch without line 110's filter of the empty entries
FormatListUnfiltered(s) ==
    Join(<<";", " ">>, [i \in 1..Len(s.items) |-> FormatItem(s.items[i])])

\* lines 99-110
FormatList(s) ==
    LET out == [i \in 1..Len(s.items) |-> FormatItem(s.items[i])]
        nonempty(o) == o # <<>>
    IN  Join(<<";", " ">>, SelectSeq(out, nonempty))

\* lines 111-116
FormatDict(s) ==
    LET t == Strip(Join(Dash, <<StripWs(Get(s.type)), StripWs(Get(s.topic))>>),
                   {" ", EmDash})
    IN  IF t # <<>> THEN t ELSE JsonDumps(s)

_format_support(s) ==
    CASE s.tag = "None" -> <<>>
      [] s.tag = "str" -> s.s
      [] s.tag = "list" -> FormatList(s)
      [] s.tag = "dict" -> FormatDict(s)
      [] OTHER -> Str(s)

Keys == {Absent} \cup {Key(s) : s \in Texts}

Dicts == {PyDict(ty, tp) : ty \in Keys, tp \in Keys}

Ints == {PyInt(0), PyInt(7), PyInt(42)}

\* the entries a list is built from
Items ==
    {PyNone, PyInt(7), PyStr(<<>>), PyStr(<<"a">>), PyStr(<<"b">>),
     PyDict(Key(<<"a">>), Key(<<"b">>)), PyDict(Key(<<"a">>), Absent),
     PyDict(Key(<<>>), Key(<<"b">>)), PyDict(Key(<<" ", "a">>), Key(<<"b", " ">>)),
     PyDict(Key(<<" ">>), Absent), PyDict(Absent, Absent)}

Lists == {PyList(items) : items \in SeqsUpTo(Items, MaxListLen)}

Supports == {PyNone} \cup {PyStr(s) : s \in Texts} \cup Ints \cup Dicts \cup Lists

FmtInit ==
    /\ NoRequest
    /\ rank = RankIdle
    /\ cols = ColsIdle
    /\ fmt \in [pc : {"start"}, s : Supports, out : {<<>>}]

Format ==
    /\ fmt.pc = "start"
    /\ fmt' = [fmt EXCEPT !.pc = "done", !.out = _format_support(fmt.s)]
    /\ UNCHANGED <<rank, cols, reqvars>>

FmtNext == Format

SpecFmt == FmtInit /\ [][FmtNext]_vars

(***************************************************************************)
(* The POST handlers, submit (lines 328-365) and export_pdf (282-326).     *)
(* A handler runs on its own request; it blocks at each collaborator call  *)
(* (load_funds, get_embedding, ollama_generate), so one action runs the    *)
(* handler from one call to the next.  An exception that leaves the        *)
(* handler is answered by Flask with status 500.                           *)
(***************************************************************************)
Required ==
    <<"project_title", "project_location", "project_type", "project_desc",
      "project_stage", "amount_requested", "currency", "support_needed">>

RequiredSet == {Required[i] : i \in 1..Len(Required)}

\* a field of the body: not in it, in it with a falsy value ("", 0, []), or given
FieldStates == {"absent", "falsy", "ok"}

TopK == 25

\* recommended_funds of the body: absent, a list, or another truthy value
NoFunds == [kind |-> "absent", items |-> <<>>]
ListOf(items) == [kind |-> "list", items |-> items]
NotAList == [kind |-> "other", items |-> <<>>]

\* the entries of a client's list: fund records, or a value that is no record
ProvidedItems == {[embedding |-> <<1, 0>>], [embedding |-> <<0, 1>>], PyInt(7)}

ProvidedFunds ==
    {NoFunds, NotAList} \cup {ListOf(items) : items \in SeqsUpTo(ProvidedItems, MaxProvided)}

\* llm_summary of the body: absent, empty, blank, or text (padded or not)
Summaries == {Absent, Key(<<>>), Key(<<" ">>), Key(<<"a">>), Key(<<" ", "a", " ">>)}

FieldMaps ==
    {f \in [RequiredSet -> FieldStates] :
        \/ Cardinality({k \in RequiredSet : f[k] # "ok"}) <= MaxBadFields
        \/ \A k \in RequiredSet : f[k] = "absent"}

Bodies == [fields : FieldMaps, recommended_funds : ProvidedFunds, llm_summary : Summaries]

\* what FUNDS_FILE may hold, what the embedding service may answer (a vector of
\* the catalog's dimension or not), what the generation service may answer
FileFunds == {[embedding |-> <<1, 0>>], [embedding |-> <<1, 1>>], [embedding |-> <<0, 0>>]}
FileCatalogs == SeqsUpTo(FileFunds, MaxFileFunds)
EmbeddingReplies == {<<1, 0>>, <<0, 1>>, <<0, 0>>, <<1>>}
Narratives == {<<"a">>, <<>>}

NoResponse ==
    [status |-> 0, kind |-> "none", field |-> "", recommended_funds |-> <<>>,
     llm_summary |-> <<>>]
BadRequest(field) == [NoResponse EXCEPT !.status = 400, !.kind = "error", !.field = field]
ServerError == [NoResponse EXCEPT !.status = 500, !.kind = "error"]
JsonOk(fs, text) ==
    [NoResponse EXCEPT !.status = 200, !.kind = "json", !.recommended_funds = fs,
                       !.llm_summary = text]
PdfOk(fs, text) ==
    [NoResponse EXCEPT !.status = 200, !.kind = "pdf", !.recommended_funds = fs,
                       !.llm_summary = text]

\* the validation loop that stops before the last required field
RECURSIVE FirstMissingFromButLast(_, _)
FirstMissingFromButLast(d, i) ==
    IF i > Len(Required) - 1 THEN 0
    ELSE IF d.fields[Required[i]] # "ok" THEN i
    ELSE FirstMissingFromButLast(d, i + 1)

\* lines 289-291 / 335-337: the first field that is not in data or is falsy (0: none)
RECURSIVE FirstMissingFrom(_, _)
FirstMissingFrom(d, i) ==
    IF i > Len(Required) THEN 0
    ELSE IF d.fields[Required[i]] # "ok" THEN i
    ELSE FirstMissingFrom(d, i + 1)

FirstMissing(d) == FirstMissingFrom(d, 1)

\* line 296 without its truthiness test
UseProvidedAnyList(d) == d.recommended_funds.kind = "list"

\* line 296: provided_funds and isinstance(provided_funds, list)
UseProvided(d) == d.recommended_funds.kind = "list" /\ d.recommended_funds.items # <<>>

\* line 294: (data.get("llm_summary") or "").strip()
ProvidedSummary(d) == StripWs(Get(d.llm_summary))

\* f.get(...) works on a record only (lines 306, 343, 225)
IsDict(f) == "embedding" \in DOMAIN f
AllDicts(fs) == \A i \in 1..Len(fs) : IsDict(fs[i])

\* np.dot raises on vectors of different lengths
SameShape(c, v) == \A i \in 1..Len(c) : Len(c[i].embedding) = Len(v)

\* lines 324-326: _build_content_pdf reads every fund with f.get
Render(fs, text) == IF AllDicts(fs) THEN PdfOk(fs, text) ELSE ServerError

\* a failed call that is made again
RetryCall(at, r, fs) == [pc |-> at, response |-> NoResponse]

\* a failed generation answered with what the request has so far
PartialResult(at, r, fs) ==
    [pc |-> "done",
     response |-> IF at = "generate" THEN JsonOk(fs, <<>>) ELSE ServerError]

\* lines 57, 65: raise_for_status (or the transport) raises, nothing in the
\* handler catches it
RaiseForStatus(at, r, fs) == [pc |-> "done", response |-> ServerError]

\* the handler once the funds are known: lines 301-326 and 341-362, up to the
\* generation call or the response
AfterFunds(r, d, fs) ==
    IF r = "export_pdf" /\ ProvidedSummary(d) # <<>>
    THEN [pc |-> "done", response |-> Render(fs, ProvidedSummary(d))]
    ELSE IF AllDicts(fs)
         THEN [pc |-> "generate", response |-> NoResponse]
         ELSE [pc |-> "done", response |-> ServerError]

\* recommend_funds without the early return of lines 74-75
AfterLoadNoEarlyReturn(r, d, c) ==
    [pc |-> "embed", response |-> NoResponse, funds |-> <<>>]

\* lines 73-75: recommend_funds after load_funds returned c
AfterLoad(r, d, c) ==
    IF c = <<>>
    THEN [pc |-> AfterFunds(r, d, <<>>).pc, response |-> AfterFunds(r, d, <<>>).response,
          funds |-> <<>>]
    ELSE [pc |-> "embed", response |-> NoResponse, funds |-> <<>>]

Call(fn, ok) == [fn |-> fn, ok |-> ok]

Init ==
    /\ rank = RankIdle
    /\ cols = ColsIdle
    /\ fmt = FmtIdle
    /\ pc = "idle"
    /\ route = "none"
    /\ data = [fields |-> [k \in RequiredSet |-> "absent"], recommended_funds |-> NoFunds,
               llm_summary |-> Absent]
    /\ catalog = [loaded |-> FALSE, funds |-> <<>>]
    /\ funds = <<>>
    /\ response = NoResponse
    /\ calls = <<>>

\* POST /api/submit
Submit ==
    /\ pc = "idle"
    /\ \E d \in Bodies :
        /\ route' = "submit"
        /\ data' = d
        /\ IF FirstMissing(d) # 0
           THEN /\ pc' = "done"
                /\ response' = BadRequest(Required[FirstMissing(d)])
           ELSE /\ pc' = "load"
                /\ response' = response
    /\ UNCHANGED <<catalog, funds, calls, rank, cols, fmt>>

\* POST /api/export_pdf
ExportPdf ==
    /\ pc = "idle"
    /\ \E d \in Bodies :
        /\ route' = "export_pdf"
        /\ data' = d
        /\ IF FirstMissing(d) # 0
           THEN /\ pc' = "done"
                /\ response' = BadRequest(Required[FirstMissing(d)])
                /\ funds' = funds
           ELSE IF UseProvided(d)
           THEN /\ funds' = d.recommended_funds.items
                /\ pc' = AfterFunds("export_pdf", d, d.recommended_funds.items).pc
                /\ response' = AfterFunds("export_pdf", d, d.recommended_funds.items).response
           ELSE /\ pc' = "load"
                /\ response' = response
                /\ funds' = funds
    /\ UNCHANGED <<catalog, calls, rank, cols, fmt>>

\* load_funds returns the file's content
LoadFunds ==
    /\ pc = "load"
    /\ \E c \in FileCatalogs :
        /\ catalog' = [loaded |-> TRUE, funds |-> c]
        /\ calls' = Append(calls, Call("load_funds", TRUE))
        /\ pc' = AfterLoad(route, data, c).pc
        /\ response' = AfterLoad(route, data, c).response
        /\ funds' = AfterLoad(route, data, c).funds
    /\ UNCHANGED <<route, data, rank, cols, fmt>>

\* load_funds raises (no file, no JSON)
LoadFundsFail ==
    /\ pc = "load"
    /\ calls' = Append(calls, Call("load_funds", FALSE))
    /\ pc' = "done"
    /\ response' = ServerError
    /\ UNCHANGED <<route, data, catalog, funds, rank, cols, fmt>>

\* get_embedding returns v; lines 87-89 rank the catalog
GetEmbedding ==
    /\ pc = "embed"
    /\ \E v \in EmbeddingReplies :
        /\ calls' = Append(calls, Call("get_embedding", TRUE))
        /\ IF SameShape(catalog.funds, v)
           THEN LET fs == Pick(catalog.funds, TopIdxs(Sims(catalog.funds, v), TopK))
                IN  /\ funds' = fs
                    /\ pc' = AfterFunds(route, data, fs).pc
                    /\ response' = AfterFunds(route, data, fs).response
           ELSE /\ funds' = funds
                /\ pc' = "done"
                /\ response' = ServerError
    /\ UNCHANGED <<route, data, catalog, rank, cols, fmt>>

\* get_embedding raises
GetEmbeddingFail ==
    /\ pc = "embed"
    /\ calls' = Append(calls, Call("get_embedding", FALSE))
    /\ pc' = RaiseForStatus("embed", route, funds).pc
    /\ response' = RaiseForStatus("embed", route, funds).response
    /\ UNCHANGED <<route, data, catalog, funds, rank, cols, fmt>>

\* ollama_generate returns text; the handler answers
Generate ==
    /\ pc = "generate"
    /\ \E text \in Narratives :
        /\ calls' = Append(calls, Call("ollama_generate", TRUE))
        /\ pc' = "done"
        /\ response' = IF route = "submit" THEN JsonOk(funds, text) ELSE Render(funds, text)
    /\ UNCHANGED <<route, data, catalog, funds, rank, cols, fmt>>

\* ollama_generate raises
GenerateFail ==
    /\ pc = "generate"
    /\ calls' = Append(calls, Call("ollama_generate", FALSE))
    /\ pc' = RaiseForStatus("generate", route, funds).pc
    /\ response' = RaiseForStatus("generate", route, funds).response
    /\ UNCHANGED <<route, data, catalog, funds, rank, cols, fmt>>

Next ==
    \/ Submit
    \/ ExportPdf
    \/ LoadFunds
    \/ LoadFundsFail
    \/ GetEmbedding
    \/ GetEmbeddingFail
    \/ Generate
    \/ GenerateFail

Spec == Init /\ [][Next]_vars

(***************************************************************************)
(* The claims.                                                             *)
(***************************************************************************)
Called(fn) == \E i \in 1..Len(calls) : calls[i].fn = fn

Count(fn) == Cardinality({i \in 1..Len(calls) : calls[i].fn = fn})

AllGiven == \A k \in RequiredSet : data.fields[k] = "ok"

\* C1: on both routes a request whose body lacks a required field ends with
\* status 400, and no collaborator (catalog load, embedding, generation) has been
\* called on it.
C1_MissingFieldRejected ==
    (pc # "idle" /\ \E k \in RequiredSet : data.fields[k] = "absent")
        => /\ pc = "done"
           /\ response.status = 400
           /\ response.kind = "error"
           /\ calls = <<>>
           /\ ~catalog.loaded

\* an export_pdf request without project_desc (and nothing else wrong, no funds
\* of its own) has been rejected
C1_Witness ==
    /\ pc = "done"
    /\ route = "export_pdf"
    /\ data.fields["project_desc"] = "absent"
    /\ \A k \in RequiredSet \ {"project_desc"} : data.fields[k] = "ok"
    /\ data.recommended_funds = NoFunds
    /\ response = BadRequest("project_desc")

\* C2: recommend_funds returns at most top_k items, each the catalog's item at
\* a position of the catalog, and no position twice.
C2_TopKOfCatalog ==
    rank.pc = "done"
        => /\ Len(rank.result) <= rank.top_k
           /\ Len(rank.result) = Len(rank.top_idxs)
           /\ \A p \in 1..Len(rank.result) :
                /\ rank.top_idxs[p] \in 1..Len(rank.funds)
                /\ rank.result[p] = rank.funds[rank.top_idxs[p]]
           /\ \A p, q \in 1..Len(rank.top_idxs) :
                rank.top_idxs[p] = rank.top_idxs[q] => p = q

\* a catalog longer than top_k has been cut to top_k items
C2_Witness ==
    /\ rank.pc = "done"
    /\ rank.top_k = 2
    /\ Len(rank.funds) = 3
    /\ Len(rank.result) = 2
    /\ rank.top_idxs = <<3, 1>>

\* C3: the returned sequence is ordered by non-increasing similarity (no item
\* is followed by one of greater similarity), and of two returned items of equal
\* similarity the one of the smaller catalog position comes first.
C3_SortedStable ==
    rank.pc = "done"
        => \A p, q \in 1..Len(rank.top_idxs) :
              p < q =>
                /\ ~FloatLT(rank.sims[rank.top_idxs[p]], rank.sims[rank.top_idxs[q]])
                /\ FloatEQ(rank.sims[rank.top_idxs[p]], rank.sims[rank.top_idxs[q]])
                      => rank.top_idxs[p] < rank.top_idxs[q]

\* C3 does hold of every ranking none of whose scores is NaN
C3_SortedStableWhenDefined ==
    (rank.pc = "done" /\ \A i \in 1..Len(rank.sims) : ~rank.sims[i].nan) => C3_SortedStable

IsZero(v) == \A i \in 1..Len(v) : v[i] = 0

\* C7: a score computed from an all-zero query or catalog vector is 0, not NaN.
C7_ZeroFallback ==
    rank.pc = "done"
        => \A i \in 1..Len(rank.funds) :
              (IsZero(rank.sub_emb) \/ IsZero(rank.funds[i].embedding))
                  => ~rank.sims[i].nan /\ rank.sims[i].num = 0

\* C4: on every path of submit and export_pdf get_embedding is called at most
\* once and ollama_generate at most once, and a call that failed is the last
\* call of the request.
C4_AtMostOneCallEach ==
    /\ Count("get_embedding") <= 1
    /\ Count("ollama_generate") <= 1
    /\ \A i \in 1..Len(calls) : ~calls[i].ok => (i = Len(calls) /\ pc = "done")

\* a request that made both calls has been answered
C4_Witness ==
    /\ pc = "done"
    /\ response.status = 200
    /\ Len(calls) = 3
    /\ calls[2] = Call("get_embedding", TRUE)
    /\ calls[3] = Call("ollama_generate", TRUE)

\* C5: once the embedding call or the generation call has failed the request is
\* over with status 500, no further call, and a response that carries neither
\* ranked items nor a narrative or document.
C5_FailureIsServerError ==
    \A i \in 1..Len(calls) :
        (calls[i].fn \in {"get_embedding", "ollama_generate"} /\ ~calls[i].ok)
            => /\ pc = "done"
               /\ i = Len(calls)
               /\ response.status = 500
               /\ response.kind = "error"
               /\ response.recommended_funds = <<>>
               /\ response.llm_summary = <<>>

\* the ranking gave two funds and the generation call then failed
C5_Witness ==
    /\ pc = "done"
    /\ Len(funds) = 2
    /\ calls = <<Call("load_funds", TRUE), Call("get_embedding", TRUE),
                 Call("ollama_generate", FALSE)>>
    /\ response.status = 500

\* C6: when the loaded catalog is empty the ranking is the empty sequence and
\* get_embedding is not called, neither before nor after.
C6_EmptyCatalogNoEmbedding ==
    (catalog.loaded /\ catalog.funds = <<>>)
        => /\ funds = <<>>
           /\ pc # "embed"
           /\ ~Called("get_embedding")

\* a submit request on an empty catalog has been answered with no funds
C6_Witness ==
    /\ pc = "done"
    /\ route = "submit"
    /\ catalog.loaded
    /\ catalog.funds = <<>>
    /\ response.status = 200
    /\ response.recommended_funds = <<>>
    /\ calls = <<Call("load_funds", TRUE), Call("ollama_generate", TRUE)>>

(***************************************************************************)
(* C8: the column widths.                                                  *)
(***************************************************************************)
Share(i) == cols.width * COLS[i]

\* what a column lacks to its minimum (0 when it has it)
Deficit(i, minw) == Max(0, minw - Share(i))

Deficits == Deficit(AmountCol, MinAmount) + Deficit(LinkCol, MinLink)

MinimaApplied ==
    /\ cols.col_widths[AmountCol] = Max(Share(AmountCol), MinAmount)
    /\ cols.col_widths[LinkCol] = Max(Share(LinkCol), MinLink)

\* the deficits are taken from column `donor`, floored at FloorWidth, and every
\* column but the donor, the amount and the link keeps its proportional width
TakenFrom(donor) ==
    /\ Deficits > 0 => cols.col_widths[donor] = Max(FloorWidth, Share(donor) - Deficits)
    /\ Deficits = 0 => cols.col_widths[donor] = Share(donor)
    /\ \A i \in 1..Len(COLS) \ {donor, AmountCol, LinkCol} : cols.col_widths[i] = Share(i)

\* C8 as stated, at the program's own content width: an amount or link column
\* below its minimum (80, 48 pt) is set to the minimum, the deficit is deducted
\* from the "Organization" column, which does not go below 60 pt, and no other
\* column changes.
C8_DeficitFromOrganization ==
    (cols.pc = "done" /\ cols.width = DocWidth)
        => (MinimaApplied /\ TakenFrom(OrganizationCol))

\* C8 as amended: the same, the deficit being deducted from the
\* "Type / Support" column (source column 3), which is set to the larger of
\* 60 pt and its width less the deficit.
C8_DeficitFromTypeSupport ==
    cols.pc = "done" => (MinimaApplied /\ TakenFrom(TypeSupportCol))

\* the program's own content width: both minima apply, the "Type / Support"
\* column has shrunk and is still above the floor
C8_Witness ==
    /\ cols.pc = "done"
    /\ cols.width = DocWidth
    /\ Share(AmountCol) < MinAmount
    /\ Share(LinkCol) < MinLink
    /\ cols.col_widths[AmountCol] = MinAmount
    /\ cols.col_widths[LinkCol] = MinLink
    /\ cols.col_widths[TypeSupportCol] < Share(TypeSupportCol)
    /\ cols.col_widths[TypeSupportCol] > FloorWidth

(***************************************************************************)
(* C9: the support formatter.                                              *)
(***************************************************************************)
\* "t - p" when both are non-empty, the non-empty half alone otherwise
Halves(t, p) ==
    IF t # <<>> /\ p # <<>> THEN t \o Dash \o p
    ELSE IF t # <<>> THEN t
    ELSE p

\* the claim's format of an entry: None and "" give "", a string itself, a
\* record its halves, any other value its textual form
StatedEntry(x) ==
    CASE x.tag = "None" -> <<>>
      [] x.tag = "str" -> x.s
      [] x.tag = "dict" -> Halves(Get(x.type), Get(x.topic))
      [] OTHER -> Str(x)

\* a half as the claim writes it: no space and no dash at either end
Plain(t) == t = <<>> \/ (t[1] \notin {" ", EmDash} /\ t[Len(t)] \notin {" ", EmDash})

\* a value of which the claim says what it gives: of a record, the halves are
\* plain and one at least is non-empty; an entry of a sequence is a string or
\* such a record
Stated(x) ==
    x.tag = "dict"
        => /\ Plain(Get(x.type))
           /\ Plain(Get(x.topic))
           /\ (Get(x.type) # <<>> \/ Get(x.topic) # <<>>)

StatedItem(x) == x.tag \in {"str", "dict"} /\ Stated(x)

NoEdgeDash(t) == t = <<>> \/ (t[1] # EmDash /\ t[Len(t)] # EmDash)

\* an entry of a sequence: a record as _format_support formats a record, any
\* other entry (None included) by str()
EntryText(x) == IF x.tag = "dict" THEN _format_support(x) ELSE Str(x)

ValidExportDone == pc = "done" /\ route = "export_pdf" /\ AllGiven

HasList == data.recommended_funds.kind = "list" /\ Len(data.recommended_funds.items) > 0

Blank ==
    \/ ~data.llm_summary.has
    \/ \A i \in 1..Len(data.llm_summary.s) : data.llm_summary.s[i] = " "

EmbeddingFirst ==
    \A i, j \in 1..Len(calls) :
        (calls[i].fn = "get_embedding" /\ calls[j].fn = "ollama_generate") => i < j

====
